---- MODULE Spec2Model ----
(***************************************************************************)
(* relaunch (neosmart/relaunch, src/main.rs): a process supervisor.  The   *)
(* model follows main() from the point where the MonitorOptions have been  *)
(* parsed, through the supervision loop of relaunch(), to the mapping of   *)
(* its result to the process exit code.                                    *)
(***************************************************************************)
EXTENDS Integers, Sequences, FiniteSets, TLC

(* ------------------------------ bounds --------------------------------- *)
\* largest value of -m/--max-restarts that is explored (smallest is -1)
MaxRestartLimit == 3
\* with max_restarts unset the loop has no bound of its own: it is followed
\* for this many children
MaxStarts == 3
\* child exit codes are drawn from 0..MaxCode (plus "killed by a signal")
MaxCode == 1
\* values of -i/--restart-interval are drawn from 1..MaxInterval
MaxInterval == 2
\* number of failing writes to the log file in one run
MaxWriteErrors == 1
\* largest count carried by a result handed to main's match on its own
MaxCount == 60

(* ------------------------------ Option<T> ------------------------------ *)
None == << >>
Some(x) == << x >>
is_some(o) == o # None
unwrap(o) == o[1]

(* ---------------------- RelaunchResult / RelaunchError ----------------- *)
NoResult == << "pending" >>
ROk == << "Ok" >>
OkAfterRestart(x) == << "OkAfterRestart", x >>
RestartCountExceeded(x) == << "RestartCountExceeded", x >>
LaunchErr == << "LaunchErr" >>
StdoutErr == << "StdoutErr" >>
StderrErr == << "StderrErr" >>

IsErr(r) == r \in {LaunchErr, StdoutErr, StderrErr}
IsOutcome(r) == r[1] \in {"Ok", "OkAfterRestart", "RestartCountExceeded"}

(* ------------------------------ MonitorOptions ------------------------- *)
MonitorOptions ==
    [ max_restarts     : {None} \cup { Some(n) : n \in (-1)..MaxRestartLimit },
      restart_always   : BOOLEAN,
      restart_interval : {None} \cup { Some(n) : n \in 1..MaxInterval },
      stdout           : {None, Some("out.txt")},
      stderr           : {None, Some("err.txt")},
      log              : {None, Some("log.txt")} ]

\* the options a run is started with: restart_interval, which is assigned in
\* main and read nowhere, is varied over the runs without a log file
Policies ==
    { m \in MonitorOptions : is_some(m.log) => m.restart_interval = None }

\* ExitStatus::code(): Some(code), or None for a child killed by a signal
ExitStatuses == {None} \cup { Some(c) : c \in 0..MaxCode }
\* success taking a missing exit code for a clean exit
success_OrSignal(st) == st = Some(0) \/ st = None

\* ExitStatus::success()
success(st) == st = Some(0)

VARIABLES
    moptions,          \* the MonitorOptions built by main
    pc,                \* position of the single thread of control
    fail_count,        \* relaunch: let mut fail_count
    start_count,       \* relaunch: let mut start_count
    exit_code,         \* relaunch: let mut exit_code (Option<i32>)
    cmd,               \* the Command built in this iteration (its redirects)
    status,            \* result of child.wait() in this iteration
    result,            \* what relaunch returned
    process_exit_code, \* main: the value handed to std::process::exit
    children,          \* number of child processes currently alive
    out,               \* console (stdout), log file and stderr of relaunch
    trace              \* the system calls made by the loop, in order

vars == << moptions, pc, fail_count, start_count, exit_code, cmd, status,
           result, process_exit_code, children, out, trace >>

(* ------------------------------ logger --------------------------------- *)
WriteError == "Error writing to log file"
LogPrefix == "<rfc3339 utc> - "

WriteErrors(o) == Cardinality({ i \in DOMAIN o.errors : o.errors[i] = WriteError })

\* outcomes of logfile.write_all that are followed for the next write
WriteOutcomes(o) ==
    IF is_some(moptions.log) /\ WriteErrors(o) < MaxWriteErrors
    THEN BOOLEAN ELSE {TRUE}

\* logger with each write replacing the content of the file
logger_Overwrite(o, s, ok) ==
    LET c == [o EXCEPT !.console = Append(@, s)] IN
    IF is_some(moptions.log)
    THEN IF ok
         THEN [c EXCEPT !.logfile = << << LogPrefix, s >> >>]
         ELSE [c EXCEPT !.errors = Append(@, WriteError)]
    ELSE c

\* logger with the console echo placed after a successful write
logger_EchoAfterWrite(o, s, ok) ==
    IF is_some(moptions.log)
    THEN IF ok
         THEN [o EXCEPT !.console = Append(@, s),
                        !.logfile = Append(@, << LogPrefix, s >>)]
         ELSE [o EXCEPT !.errors = Append(@, WriteError)]
    ELSE [o EXCEPT !.console = Append(@, s)]

\* the closure `logger` of main, applied to message s; ok is the outcome of
\* write_all
logger(o, s, ok) ==
    LET c == [o EXCEPT !.console = Append(@, s)] IN
    IF is_some(moptions.log)
    THEN IF ok
         THEN [c EXCEPT !.logfile = Append(@, << LogPrefix, s >>)]
         ELSE [c EXCEPT !.errors = Append(@, WriteError)]
    ELSE c

MsgMonitoring == << "Monitoring new child process" >>
MsgExited(st) ==
    IF is_some(st) THEN << "Child process exited", "exit code", unwrap(st) >>
    ELSE << "Child process exited", "due to signal!" >>
MsgNormal == << "Child process exited normally." >>
MsgComplete == << "Monitoring complete, exiting." >>
MsgMaxRestart == << "Max restart count exceeded" >>

(* ------------------------------ Init ----------------------------------- *)
Init ==
    /\ moptions \in Policies
    /\ pc = "open_log"
    /\ fail_count = 0
    /\ start_count = 0
    /\ exit_code = None
    /\ cmd = [stdout |-> FALSE, stderr |-> FALSE]
    /\ status = None
    /\ result = NoResult
    /\ process_exit_code = None
    /\ children = 0
    /\ out = [console |-> << >>, logfile |-> << >>, errors |-> << >>]
    /\ trace = << >>

(* ------------------------------ main: log file ------------------------- *)
\* main opens the log file once, before the supervision starts
OpenLog ==
    /\ pc = "open_log"
    /\ IF is_some(moptions.log)
       THEN \E ok \in BOOLEAN :
              IF ok
              THEN /\ pc' = "open_stdout"
                   /\ UNCHANGED << out, process_exit_code >>
              ELSE /\ pc' = "exited"
                   /\ out' = [out EXCEPT !.errors = Append(@, "Could not create log file")]
                   /\ process_exit_code' = Some(-1)
       ELSE /\ pc' = "open_stdout"
            /\ UNCHANGED << out, process_exit_code >>
    /\ UNCHANGED << moptions, fail_count, start_count, exit_code, cmd, status,
                    result, children, trace >>

(* ------------------------------ relaunch: the loop --------------------- *)
\* the number of children up to which the loop is followed: with
\* max_restarts = N the loop ends by itself after max(N,0)+1 children, which
\* is below this number
LoopCap ==
    IF is_some(moptions.max_restarts) THEN MaxRestartLimit + MaxStarts ELSE MaxStarts

\* RedirectStdout with the failed open not propagated by `?`
RedirectStdout_Ignore ==
    /\ pc = "open_stdout"
    /\ start_count < LoopCap
    /\ IF is_some(moptions.stdout)
       THEN \E ok \in BOOLEAN :
              /\ trace' = Append(trace, << "open_stdout", ok >>)
              /\ cmd' = [stdout |-> ok, stderr |-> FALSE]
              /\ pc' = "open_stderr"
              /\ UNCHANGED result
       ELSE /\ cmd' = [stdout |-> FALSE, stderr |-> FALSE]
            /\ pc' = "open_stderr"
            /\ UNCHANGED << result, trace >>
    /\ UNCHANGED << moptions, fail_count, start_count, exit_code, status,
                    process_exit_code, children, out >>

\* top of the loop: a fresh Command, then the stdout redirect
RedirectStdout ==
    /\ pc = "open_stdout"
    /\ start_count < LoopCap
    /\ IF is_some(moptions.stdout)
       THEN \E ok \in BOOLEAN :
              /\ trace' = Append(trace, << "open_stdout", ok >>)
              /\ IF ok
                 THEN /\ cmd' = [stdout |-> TRUE, stderr |-> FALSE]
                      /\ pc' = "open_stderr"
                      /\ UNCHANGED result
                 ELSE /\ cmd' = [stdout |-> FALSE, stderr |-> FALSE]
                      /\ result' = StdoutErr
                      /\ pc' = "returned"
       ELSE /\ cmd' = [stdout |-> FALSE, stderr |-> FALSE]
            /\ pc' = "open_stderr"
            /\ UNCHANGED << result, trace >>
    /\ UNCHANGED << moptions, fail_count, start_count, exit_code, status,
                    process_exit_code, children, out >>

RedirectStderr ==
    /\ pc = "open_stderr"
    /\ IF is_some(moptions.stderr)
       THEN \E ok \in BOOLEAN :
              /\ trace' = Append(trace, << "open_stderr", ok >>)
              /\ IF ok
                 THEN /\ cmd' = [cmd EXCEPT !.stderr = TRUE]
                      /\ pc' = "spawn"
                      /\ UNCHANGED result
                 ELSE /\ result' = StderrErr
                      /\ pc' = "returned"
                      /\ UNCHANGED cmd
       ELSE /\ pc' = "spawn"
            /\ UNCHANGED << cmd, result, trace >>
    /\ UNCHANGED << moptions, fail_count, start_count, exit_code, status,
                    process_exit_code, children, out >>

\* Spawn with a failed spawn retried in the next iteration
Spawn_Retry ==
    /\ pc = "spawn"
    /\ \E ok \in BOOLEAN :
         /\ trace' = Append(trace, << "spawn", ok >>)
         /\ IF ok
            THEN /\ children' = children + 1
                 /\ \E w \in WriteOutcomes(out) : out' = logger(out, MsgMonitoring, w)
                 /\ pc' = "count"
            ELSE /\ Len(trace) < 8
                 /\ pc' = "open_stdout"
                 /\ UNCHANGED << children, out >>
    /\ UNCHANGED << moptions, fail_count, start_count, exit_code, cmd, status,
                    result, process_exit_code >>

\* cmd.spawn() and the "Monitoring new child process" message
Spawn ==
    /\ pc = "spawn"
    /\ \E ok \in BOOLEAN :
         /\ trace' = Append(trace, << "spawn", ok >>)
         /\ IF ok
            THEN /\ children' = children + 1
                 /\ \E w \in WriteOutcomes(out) : out' = logger(out, MsgMonitoring, w)
                 /\ pc' = "count"
                 /\ UNCHANGED result
            ELSE /\ result' = LaunchErr
                 /\ pc' = "returned"
                 /\ UNCHANGED << children, out >>
    /\ UNCHANGED << moptions, fail_count, start_count, exit_code, cmd, status,
                    process_exit_code >>

\* CountStart counting the child twice
CountStart_Double ==
    /\ pc = "count"
    /\ start_count' = start_count + 2
    /\ pc' = "wait"
    /\ UNCHANGED << moptions, fail_count, exit_code, cmd, status, result,
                    process_exit_code, children, out, trace >>

\* CountStart with the wait on the child left out
CountStart_SkipWait ==
    /\ pc = "count"
    /\ start_count' = start_count + 1
    /\ pc' = "classify"
    /\ UNCHANGED << moptions, fail_count, exit_code, cmd, status, result,
                    process_exit_code, children, out, trace >>

\* start_count += 1
CountStart ==
    /\ pc = "count"
    /\ start_count' = start_count + 1
    /\ pc' = "wait"
    /\ UNCHANGED << moptions, fail_count, exit_code, cmd, status, result,
                    process_exit_code, children, out, trace >>

\* child.wait(): blocks until the child has terminated
Wait ==
    /\ pc = "wait"
    /\ \E st \in ExitStatuses :
         /\ status' = st
         /\ trace' = Append(trace, << "wait", st >>)
    /\ children' = children - 1
    /\ pc' = "classify"
    /\ UNCHANGED << moptions, fail_count, start_count, exit_code, cmd, result,
                    process_exit_code, out >>

\* Classify with the failure counter reset by a clean exit when
\* restart_interval is configured
Classify_ResetOnInterval ==
    /\ pc = "classify"
    /\ IF ~ success(status)
       THEN /\ \E w \in WriteOutcomes(out) : out' = logger(out, MsgExited(status), w)
            /\ fail_count' = fail_count + 1
            /\ pc' = "record"
       ELSE /\ \E w1 \in WriteOutcomes(out) :
                 LET o1 == logger(out, MsgNormal, w1) IN
                 IF ~ moptions.restart_always
                 THEN /\ \E w2 \in WriteOutcomes(o1) : out' = logger(o1, MsgComplete, w2)
                      /\ pc' = "outcome"
                 ELSE /\ out' = o1
                      /\ pc' = "record"
            /\ fail_count' = (IF is_some(moptions.restart_interval) THEN 0 ELSE fail_count)
    /\ UNCHANGED << moptions, start_count, exit_code, cmd, status, result,
                    process_exit_code, children, trace >>

\* Classify without the break on a clean exit
Classify_NoBreak ==
    /\ pc = "classify"
    /\ IF ~ success(status)
       THEN /\ \E w \in WriteOutcomes(out) : out' = logger(out, MsgExited(status), w)
            /\ fail_count' = fail_count + 1
       ELSE /\ \E w \in WriteOutcomes(out) : out' = logger(out, MsgNormal, w)
            /\ UNCHANGED fail_count
    /\ pc' = "record"
    /\ UNCHANGED << moptions, start_count, exit_code, cmd, status, result,
                    process_exit_code, children, trace >>

\* Classify with a failure counted twice
Classify_DoubleCount ==
    /\ pc = "classify"
    /\ IF ~ success(status)
       THEN /\ \E w \in WriteOutcomes(out) : out' = logger(out, MsgExited(status), w)
            /\ fail_count' = fail_count + 2
            /\ pc' = "record"
       ELSE /\ \E w1 \in WriteOutcomes(out) :
                 LET o1 == logger(out, MsgNormal, w1) IN
                 IF ~ moptions.restart_always
                 THEN /\ \E w2 \in WriteOutcomes(o1) : out' = logger(o1, MsgComplete, w2)
                      /\ pc' = "outcome"
                 ELSE /\ out' = o1
                      /\ pc' = "record"
            /\ UNCHANGED fail_count
    /\ UNCHANGED << moptions, start_count, exit_code, cmd, status, result,
                    process_exit_code, children, trace >>

\* the two ifs on status.success(); the break leaves the loop at once
Classify ==
    /\ pc = "classify"
    /\ IF ~ success(status)
       THEN /\ \E w \in WriteOutcomes(out) : out' = logger(out, MsgExited(status), w)
            /\ fail_count' = fail_count + 1
            /\ pc' = "record"
       ELSE /\ \E w1 \in WriteOutcomes(out) :
                 LET o1 == logger(out, MsgNormal, w1) IN
                 IF ~ moptions.restart_always
                 THEN /\ \E w2 \in WriteOutcomes(o1) : out' = logger(o1, MsgComplete, w2)
                      /\ pc' = "outcome"
                 ELSE /\ out' = o1
                      /\ pc' = "record"
            /\ UNCHANGED fail_count
    /\ UNCHANGED << moptions, start_count, exit_code, cmd, status, result,
                    process_exit_code, children, trace >>

\* exit_code = status.code()
RecordExit ==
    /\ pc = "record"
    /\ exit_code' = status
    /\ pc' = "decide"
    /\ UNCHANGED << moptions, fail_count, start_count, cmd, status, result,
                    process_exit_code, children, out, trace >>

\* restart comparing with start_count instead of start_count - 1
restart_NoMinus(max_restarts, count) ==
    IF max_restarts = None THEN TRUE ELSE unwrap(max_restarts) > count

\* restart with >= in place of >
restart_Ge(max_restarts, count) ==
    IF max_restarts = None THEN TRUE ELSE unwrap(max_restarts) >= count - 1

\* restart taking a negative limit for "no limit"
restart_NegUnlimited(max_restarts, count) ==
    IF max_restarts = None THEN TRUE
    ELSE IF unwrap(max_restarts) < 0 THEN TRUE
    ELSE unwrap(max_restarts) > count - 1

\* restart allowing a single restart when no limit is set
restart_NoneOnce(max_restarts, count) ==
    IF max_restarts = None THEN 1 > count - 1 ELSE unwrap(max_restarts) > count - 1

\* let restart = match moptions.max_restarts { ... }
restart(max_restarts, count) ==
    IF max_restarts = None THEN TRUE ELSE unwrap(max_restarts) > count - 1

\* DecideRestart leaving the loop without the message
DecideRestart_Silent ==
    /\ pc = "decide"
    /\ pc' = (IF ~ restart(moptions.max_restarts, start_count)
              THEN "outcome" ELSE "open_stdout")
    /\ UNCHANGED << moptions, fail_count, start_count, exit_code, cmd, status,
                    result, process_exit_code, children, out, trace >>

DecideRestart ==
    /\ pc = "decide"
    /\ IF ~ restart(moptions.max_restarts, start_count)
       THEN /\ \E w \in WriteOutcomes(out) : out' = logger(out, MsgMaxRestart, w)
            /\ pc' = "outcome"
       ELSE /\ pc' = "open_stdout"
            /\ UNCHANGED out
    /\ UNCHANGED << moptions, fail_count, start_count, exit_code, cmd, status,
                    result, process_exit_code, children, trace >>

\* RelaunchOutcome with restart_always looked at last
RelaunchOutcome_CleanFirst(always, fails, code) ==
    IF fails = 0 THEN ROk
    ELSE IF code = Some(0) THEN OkAfterRestart(fails)
    ELSE RestartCountExceeded(fails)

\* the match after the loop
RelaunchOutcome(always, fails, code) ==
    IF always THEN RestartCountExceeded(fails)
    ELSE IF fails = 0 THEN ROk
    ELSE IF code = Some(0) THEN OkAfterRestart(fails)
    ELSE RestartCountExceeded(fails)

Return ==
    /\ pc = "outcome"
    /\ result' = RelaunchOutcome(moptions.restart_always, fail_count, exit_code)
    /\ pc' = "returned"
    /\ UNCHANGED << moptions, fail_count, start_count, exit_code, cmd, status,
                    process_exit_code, children, out, trace >>

(* ------------------------------ main: exit code ------------------------ *)
\* ExitCodeOf with the count of OkAfterRestart used as the exit code
ExitCodeOf_Count(r) ==
    IF r = ROk THEN 0
    ELSE IF r[1] = "OkAfterRestart" THEN r[2]
    ELSE IF r[1] = "RestartCountExceeded" THEN r[2]
    ELSE -1

\* let exit_code = match relaunch(..) { ... }
ExitCodeOf(r) ==
    IF r = ROk THEN 0
    ELSE IF r[1] = "OkAfterRestart" THEN 0
    ELSE IF r[1] = "RestartCountExceeded" THEN r[2]
    ELSE -1

ErrorMsg(r) ==
    IF r = LaunchErr THEN << "Error launching target" >>
    ELSE IF r = StderrErr THEN << "Error redirecting stderr to file" >>
    ELSE << "Error redirecting stdout to file" >>

MainExit ==
    /\ pc = "returned"
    /\ process_exit_code' = Some(ExitCodeOf(result))
    /\ out' = IF IsErr(result)
              THEN [out EXCEPT !.console = Append(@, ErrorMsg(result))]
              ELSE out
    /\ pc' = "exited"
    /\ UNCHANGED << moptions, fail_count, start_count, exit_code, cmd, status,
                    result, children, trace >>

Next ==
    \/ OpenLog
    \/ RedirectStdout
    \/ RedirectStderr
    \/ Spawn
    \/ CountStart
    \/ Wait
    \/ Classify
    \/ RecordExit
    \/ DecideRestart
    \/ Return
    \/ MainExit

Spec == Init /\ [][Next]_vars

TypeOK ==
    /\ moptions \in MonitorOptions
    /\ fail_count \in Nat
    /\ start_count \in Nat
    /\ exit_code \in ExitStatuses
    /\ status \in ExitStatuses
    /\ children \in 0..1

(* ------------------------------ main's match on its own ---------------- *)
\* every value relaunch's signature allows it to return
RelaunchReturns ==
    {ROk} \cup { OkAfterRestart(x) : x \in 1..MaxCount }
          \cup { RestartCountExceeded(x) : x \in 0..MaxCount }
          \cup {LaunchErr, StdoutErr, StderrErr}

\* relaunch has just returned some value of its return type to main
InitMain ==
    /\ moptions = [max_restarts |-> None, restart_always |-> FALSE,
                   restart_interval |-> None, stdout |-> None,
                   stderr |-> None, log |-> None]
    /\ pc = "returned"
    /\ result \in RelaunchReturns
    /\ fail_count = (IF IsErr(result) \/ result = ROk THEN 0 ELSE result[2])
    /\ start_count = 0
    /\ exit_code = None
    /\ cmd = [stdout |-> FALSE, stderr |-> FALSE]
    /\ status = None
    /\ process_exit_code = None
    /\ children = 0
    /\ out = [console |-> << >>, logfile |-> << >>, errors |-> << >>]
    /\ trace = << >>

NextMain == MainExit

SpecMain == InitMain /\ [][NextMain]_vars

(* ------------------------------ observations --------------------------- *)
\* indices of the spawn attempts (calls of cmd.spawn) made so far
SpawnIdx == { i \in DOMAIN trace : trace[i][1] = "spawn" }
Spawns == Cardinality(SpawnIdx)
\* indices of the completed waits
WaitIdx == { i \in DOMAIN trace : trace[i][1] = "wait" }
\* a redirect file could not be opened, or the target could not be started
IoFailed ==
    \E i \in DOMAIN trace :
        /\ trace[i][1] \in {"open_stdout", "open_stderr", "spawn"}
        /\ trace[i][2] = FALSE
AllExitsZero == \A i \in WaitIdx : trace[i][2] = Some(0)
AllExitsNonZero == \A i \in WaitIdx : is_some(trace[i][2]) /\ unwrap(trace[i][2]) # 0
LastExit == trace[CHOOSE i \in WaitIdx : \A j \in WaitIdx : j <= i][2]
Stopped == pc \in {"returned", "exited"}

(* ------------------------------ C1 ------------------------------------- *)
\* C1: with restart_always=false and no launch/redirect error, when the
\* last child exits 0 after one or more failed attempts, relaunch returns
\* OkAfterRestart(fail_count) and the process exit code is 0.
C1_RestartedThenClean ==
    ( /\ ~ moptions.restart_always
      /\ IsOutcome(result)
      /\ fail_count > 0
      /\ LastExit = Some(0) )
    => /\ result = OkAfterRestart(fail_count)
       /\ (pc = "exited" => process_exit_code = Some(0))

(* ------------------------------ C2 ------------------------------------- *)
\* C2: with restart_always=false, a target whose every run exits 0 and no
\* launch/redirect error, exactly one spawn occurs, fail_count stays 0, the
\* result is RelaunchResult::Ok and the exit code is 0, for every
\* max_restarts and restart_interval.
C2_CleanExit ==
    ( ~ moptions.restart_always /\ AllExitsZero /\ ~ IoFailed )
    => /\ Spawns <= 1
       /\ fail_count = 0
       /\ (IsOutcome(result) => Spawns = 1 /\ result = ROk)
       /\ (pc = "exited" /\ IsOutcome(result) => process_exit_code = Some(0))

C2_Witness ==
    /\ pc = "exited"
    /\ ~ moptions.restart_always
    /\ moptions.max_restarts = Some(3)
    /\ is_some(moptions.restart_interval)
    /\ result = ROk
    /\ Spawns = 1

(* ------------------------------ C3 ------------------------------------- *)
\* C3: for max_restarts = N >= 1 and a target whose every run exits with a
\* non-zero code, exactly N+1 spawns occur, the result is
\* RestartCountExceeded(N+1) and the exit code is N+1.
C3_LimitReached ==
    ( /\ is_some(moptions.max_restarts)
      /\ moptions.max_restarts # Some(-1)
      /\ moptions.max_restarts # Some(0)
      /\ AllExitsNonZero
      /\ ~ IoFailed )
    => LET N == unwrap(moptions.max_restarts) IN
       /\ Spawns <= N + 1
       /\ (IsOutcome(result) =>
             /\ Spawns = N + 1
             /\ result = RestartCountExceeded(N + 1))
       /\ (pc = "exited" /\ IsOutcome(result) => process_exit_code = Some(N + 1))

C3_Witness ==
    /\ pc = "exited"
    /\ moptions.max_restarts = Some(2)
    /\ AllExitsNonZero
    /\ Spawns = 3
    /\ result = RestartCountExceeded(3)
    /\ process_exit_code = Some(3)

(* ------------------------------ C4 ------------------------------------- *)
\* C4: for max_restarts = 0 a second spawn is never reached: the loop is at
\* a point before the spawn only while no spawn has been made, and once the
\* first child has been waited for the loop has stopped with one spawn.
C4_SingleAttempt ==
    moptions.max_restarts = Some(0)
    => /\ Spawns <= 1
       /\ (pc \in {"open_stdout", "open_stderr", "spawn"} => Spawns = 0)
       /\ (IsOutcome(result) => Spawns = 1 /\ start_count = 1)

C4_Witness ==
    /\ moptions.max_restarts = Some(0)
    /\ moptions.restart_always
    /\ pc = "exited"
    /\ result = RestartCountExceeded(0)
    /\ Spawns = 1
    /\ LastExit = Some(0)

(* ------------------------------ C5 ------------------------------------- *)
\* C5: with restart_always=true every result that is not an error is
\* RestartCountExceeded(fail_count), also when fail_count is 0; a target
\* that always exits 0 under max_restarts=3 is spawned 4 times and gives
\* RestartCountExceeded(0) and exit code 0.
C5_AlwaysRestart ==
    ( moptions.restart_always /\ IsOutcome(result) )
    => /\ result = RestartCountExceeded(fail_count)
       /\ ( moptions.max_restarts = Some(3) /\ AllExitsZero
            => /\ Spawns = 4
               /\ result = RestartCountExceeded(0)
               /\ (pc = "exited" => process_exit_code = Some(0)) )

C5_Witness ==
    /\ moptions.restart_always
    /\ moptions.max_restarts = Some(3)
    /\ AllExitsZero
    /\ pc = "exited"
    /\ Spawns = 4
    /\ result = RestartCountExceeded(0)
    /\ process_exit_code = Some(0)

(* ------------------------------ C6 ------------------------------------- *)
\* C6: in every iteration the child is spawned only after each configured
\* redirect file was opened successfully in that iteration, stdout before
\* stderr; a failed stdout (stderr) open ends the loop at once with
\* StdoutErr (StderrErr) and no spawn follows it, so a failure in the first
\* iteration leaves zero spawns.
C6_RedirectBeforeSpawn ==
    /\ \A i \in SpawnIdx :
         LET j == IF is_some(moptions.stderr) THEN i - 1 ELSE i IN
         /\ is_some(moptions.stderr) =>
              /\ i > 1
              /\ trace[i - 1][1] = "open_stderr"
              /\ trace[i - 1][2] = TRUE
         /\ is_some(moptions.stdout) =>
              /\ j > 1
              /\ trace[j - 1][1] = "open_stdout"
              /\ trace[j - 1][2] = TRUE
    /\ \A i \in DOMAIN trace :
         /\ (trace[i][1] = "open_stdout" /\ trace[i][2] = FALSE) =>
              i = Len(trace) /\ Stopped /\ result = StdoutErr
         /\ (trace[i][1] = "open_stderr" /\ trace[i][2] = FALSE) =>
              i = Len(trace) /\ Stopped /\ result = StderrErr
    /\ (result \in {StdoutErr, StderrErr} /\ start_count = 0) => Spawns = 0
    /\ pc = "spawn" => /\ cmd.stdout = is_some(moptions.stdout)
                       /\ cmd.stderr = is_some(moptions.stderr)

C6_Witness ==
    /\ is_some(moptions.stdout)
    /\ is_some(moptions.stderr)
    /\ pc = "exited"
    /\ result = StderrErr
    /\ Spawns = 2
    /\ start_count = 2

(* ------------------------------ C7 ------------------------------------- *)
\* C7: a failed spawn, in the first or in a later iteration, is the last
\* thing the loop does: relaunch returns LaunchErr, nothing is opened or
\* spawned after it, and the exit code is -1 whatever the counters are.
C7_LaunchFailed ==
    \A i \in SpawnIdx :
        trace[i][2] = FALSE
        => /\ i = Len(trace)
           /\ Stopped
           /\ result = LaunchErr
           /\ (pc = "exited" => process_exit_code = Some(-1))

C7_Witness ==
    /\ pc = "exited"
    /\ result = LaunchErr
    /\ start_count = 2
    /\ fail_count = 1
    /\ process_exit_code = Some(-1)

(* ------------------------------ C8 ------------------------------------- *)
\* C8: start_count >= fail_count >= 0 in every state of the loop, also
\* between the increment of start_count and the classification of that
\* child's exit, and after the loop has stopped.
C8_CountOrder == start_count >= fail_count /\ fail_count >= 0

C8_Witness ==
    /\ pc = "classify"
    /\ ~ success(status)
    /\ fail_count = 2
    /\ start_count = 3

(* ------------------------------ C9 ------------------------------------- *)
\* successful spawns and completed waits, in the order they happened
ProcEvents ==
    SelectSeq(trace, LAMBDA e : e[1] = "wait" \/ (e[1] = "spawn" /\ e[2]))

\* C9: at most one child is alive at any time; successful spawns and
\* completed waits strictly alternate, starting with a spawn.
C9_OneChild ==
    /\ children \in {0, 1}
    /\ \A k \in DOMAIN ProcEvents :
         ProcEvents[k][1] = (IF k % 2 = 1 THEN "spawn" ELSE "wait")

C9_Witness ==
    /\ pc = "wait"
    /\ children = 1
    /\ Len(ProcEvents) = 5

(* ------------------------------ C10 ------------------------------------ *)
\* C10: the exit code is 0 for Ok and for OkAfterRestart, the carried
\* fail_count for RestartCountExceeded, and -1 for LaunchErr, StdoutErr and
\* StderrErr; so an outcome never gives a negative code and an error never
\* gives 0.
C10_ExitCode ==
    (pc = "exited" /\ result # NoResult)
    => LET c == unwrap(process_exit_code) IN
       /\ result = ROk => c = 0
       /\ result[1] = "OkAfterRestart" => c = 0
       /\ result[1] = "RestartCountExceeded" => c = fail_count
       /\ IsErr(result) => c = -1
       /\ IsOutcome(result) => c >= 0
       /\ IsErr(result) => c # 0

C10_Witness ==
    /\ pc = "exited"
    /\ result = OkAfterRestart(2)
    /\ process_exit_code = Some(0)

(* ------------------------------ the loop as a function of its inputs --- *)
\* What the loop of relaunch computes from the options m and the results of
\* its system calls alone, with no log file and no restart_interval: the
\* state at the end of the iteration in which the k-th call of tr was made.
ReplayInit ==
    [start_count |-> 0, fail_count |-> 0, exit_code |-> None,
     result |-> NoResult, console |-> << >>]

ReplayDecide(m, s) ==
    IF restart(m.max_restarts, s.start_count)
    THEN s
    ELSE [s EXCEPT !.console = Append(@, MsgMaxRestart),
                   !.result = RelaunchOutcome(m.restart_always, s.fail_count, s.exit_code)]

ReplayEvent(m, s, e) ==
    IF e[1] = "open_stdout"
    THEN (IF e[2] THEN s ELSE [s EXCEPT !.result = StdoutErr])
    ELSE IF e[1] = "open_stderr"
    THEN (IF e[2] THEN s ELSE [s EXCEPT !.result = StderrErr])
    ELSE IF e[1] = "spawn"
    THEN (IF e[2]
          THEN [s EXCEPT !.start_count = @ + 1,
                         !.console = Append(@, MsgMonitoring)]
          ELSE [s EXCEPT !.result = LaunchErr])
    ELSE IF ~ success(e[2])
    THEN ReplayDecide(m, [s EXCEPT !.fail_count = @ + 1,
                                   !.console = Append(@, MsgExited(e[2])),
                                   !.exit_code = e[2]])
    ELSE IF ~ m.restart_always
    THEN [s EXCEPT !.console = @ \o << MsgNormal, MsgComplete >>,
                   !.result = RelaunchOutcome(FALSE, s.fail_count, s.exit_code)]
    ELSE ReplayDecide(m, [s EXCEPT !.console = Append(@, MsgNormal),
                                   !.exit_code = e[2]])

RECURSIVE Replay(_, _, _)
Replay(m, tr, k) ==
    IF k = 0 THEN ReplayInit ELSE ReplayEvent(m, Replay(m, tr, k - 1), tr[k])

\* the loop is between two iterations, or has ended
AtBoundary == pc \in {"open_stdout", "returned", "exited"}

(* ------------------------------ C11 ------------------------------------ *)
\* C11: a failed write to the log file changes nothing in the supervision:
\* whatever writes failed, the counters, the recorded exit code, the result
\* and the exit code are those the system calls' results alone determine,
\* and the console shows every message, the ones whose write failed too.
C11_LogFailureHarmless ==
    (AtBoundary /\ (pc = "exited" => result # NoResult))
    => LET r == Replay(moptions, trace, Len(trace)) IN
       /\ start_count = r.start_count
       /\ fail_count = r.fail_count
       /\ exit_code = r.exit_code
       /\ result = r.result
       /\ pc = "exited" => process_exit_code = Some(ExitCodeOf(r.result))
       /\ out.console = (IF pc = "exited" /\ IsErr(r.result)
                         THEN Append(r.console, ErrorMsg(r.result))
                         ELSE r.console)

C11_Witness ==
    /\ pc = "exited"
    /\ WriteErrors(out) = 1
    /\ result = RestartCountExceeded(2)
    /\ Len(out.console) = 5
    /\ Len(out.logfile) = 4

LoggedConsole ==
    SelectSeq(out.console,
              LAMBDA msg : msg # ErrorMsg(LaunchErr) /\ msg # ErrorMsg(StdoutErr)
                           /\ msg # ErrorMsg(StderrErr))

\* C13: with a log file configured and no failed write, the lines added to
\* the file are, one per logger event and in the order of the console, the
\* timestamp prefix followed by the console message.
C13_OneLinePerEvent ==
    (is_some(moptions.log) /\ WriteErrors(out) = 0)
    => /\ Len(out.logfile) = Len(LoggedConsole)
       /\ \A i \in DOMAIN out.logfile :
            out.logfile[i] = << LogPrefix, LoggedConsole[i] >>

C13_Witness ==
    /\ is_some(moptions.log)
    /\ WriteErrors(out) = 0
    /\ pc = "exited"
    /\ result = LaunchErr
    /\ Len(LoggedConsole) = 2
    /\ Len(out.logfile) = 2
    /\ Len(out.console) = 3

(* ------------------------------ C14 ------------------------------------ *)
\* the children that were started: the spawn attempts that succeeded
Spawned == Cardinality({ i \in SpawnIdx : trace[i][2] })
AfterCount ==
    pc \in {"wait", "classify", "record", "decide", "outcome", "returned", "exited"}

\* C14 as claimed: while the supervisor waits, after a wait and once it has
\* stopped, start_count equals the number of spawn attempts made so far.
C14_CountsAttempts == AfterCount => start_count = Spawns

\* C14, amended: start_count is incremented once per child that was
\* started, after the spawn and before the wait on that child; a failed
\* spawn attempt is not counted and is the last one.  While the supervisor
\* waits, after a wait and once it has stopped, start_count is the number of
\* children started.
C14_CountsSpawned ==
    /\ pc = "count" => start_count = Spawned - 1
    /\ pc # "count" => start_count = Spawned
    /\ Spawns \in {Spawned, Spawned + 1}
    /\ Spawns # Spawned => Stopped /\ result = LaunchErr

C14_Witness ==
    /\ pc = "exited"
    /\ result = LaunchErr
    /\ Spawns = 3
    /\ start_count = 2

(* ------------------------------ C15 ------------------------------------ *)
\* C15: after every completed wait the recorded exit code is that child's
\* status, so when the loop has ended with an outcome exit_code is the
\* status of the child that terminated last.
C15_LastExitRecorded ==
    (pc \in {"decide", "outcome"} \/ IsOutcome(result)) => exit_code = LastExit

(* ------------------------------ C16 ------------------------------------ *)
\* C16: a child killed by a signal is a failure: classifying it adds exactly
\* one to fail_count and goes on to the restart decision, never to the
\* clean-exit stop; with restart_always=false a run whose last child was
\* killed by a signal returns RestartCountExceeded(fail_count).
C16_SignalIsFailure ==
    /\ [][ (pc = "classify" /\ status = None)
           => (fail_count' = fail_count + 1 /\ pc' = "record") ]_vars
    /\ [] ( ( ~ moptions.restart_always /\ IsOutcome(result) /\ LastExit = None )
            => ( result = RestartCountExceeded(fail_count) /\ fail_count >= 1 ) )

C16_Witness ==
    /\ ~ moptions.restart_always
    /\ pc = "exited"
    /\ IsOutcome(result)
    /\ LastExit = None
    /\ fail_count = 2
    /\ result = RestartCountExceeded(2)
    /\ process_exit_code = Some(2)

(* ------------------------------ C17 ------------------------------------ *)
\* the console lines "Max restart count exceeded"
MaxRestartIdx == { i \in DOMAIN out.console : out.console[i] = MsgMaxRestart }
\* the loop was left by a break, not by an error
LoopLeft == pc = "outcome" \/ IsOutcome(result)
\* the loop was left by the break after a clean exit
CleanStop == LoopLeft /\ ~ moptions.restart_always /\ success(LastExit)

\* C17: "Max restart count exceeded" is logged exactly when a restart is
\* refused: max_restarts = N is set, the last wait did not end in the
\* clean-exit stop and start_count - 1 >= N.  It is logged at most once, it
\* is the last line, no system call follows the wait before it, and it is
\* absent after the clean-exit stop.
C17_MaxRestartLogged ==
    /\ Cardinality(MaxRestartIdx) <= 1
    /\ MaxRestartIdx # {} =>
         /\ LoopLeft
         /\ ~ CleanStop
         /\ is_some(moptions.max_restarts)
         /\ start_count - 1 >= unwrap(moptions.max_restarts)
         /\ MaxRestartIdx = {Len(out.console)}
         /\ trace[Len(trace)][1] = "wait"
    /\ (LoopLeft /\ ~ CleanStop) => MaxRestartIdx # {}
    /\ CleanStop => MaxRestartIdx = {}

C17_Witness ==
    /\ pc = "exited"
    /\ moptions.max_restarts = Some(1)
    /\ ~ moptions.restart_always
    /\ start_count = 2
    /\ LastExit = Some(1)
    /\ MaxRestartIdx = {Len(out.console)}

(* ------------------------------ C18 ------------------------------------ *)
Max(a, b) == IF a >= b THEN a ELSE b

\* C18: with max_restarts = N the number of spawns never exceeds
\* max(N,0)+1, whatever the children do and whatever restart_always is; a
\* negative N stops after the first child like 0 does.
C18_SpawnBound ==
    is_some(moptions.max_restarts)
    => LET N == unwrap(moptions.max_restarts) IN
       /\ Spawns <= Max(N, 0) + 1
       /\ (N < 0 /\ pc \in {"open_stdout", "open_stderr", "spawn"}) => Spawns = 0
       /\ (N < 0 /\ LoopLeft) => start_count = 1

C18_Witness ==
    /\ moptions.max_restarts = Some(-1)
    /\ moptions.restart_always
    /\ pc = "exited"
    /\ Spawns = 1
    /\ result = RestartCountExceeded(0)

(* ------------------------------ C19 ------------------------------------ *)
\* C19: with max_restarts unset the loop is left with an outcome only by a
\* child exiting 0 under restart_always=false: after a failed child the
\* restart decision always leads to the next iteration, and with
\* restart_always=true the loop is never left with an outcome.
C19_UnlimitedRestarts ==
    /\ [] ( (moptions.max_restarts = None /\ LoopLeft)
            => (~ moptions.restart_always /\ LastExit = Some(0)) )
    /\ [][ (moptions.max_restarts = None /\ pc = "decide")
           => pc' = "open_stdout" ]_vars

C19_Witness ==
    /\ moptions.max_restarts = None
    /\ ~ moptions.restart_always
    /\ pc = "exited"
    /\ IsOutcome(result)
    /\ start_count = 3
    /\ fail_count = 2
    /\ LastExit = Some(0)

(* ------------------------------ C20 ------------------------------------ *)
\* The supervisor is one thread that always takes its next step, and every
\* child that was started exits: each step that is possible is taken.
\* The runs followed to their end are those of Init in which a log file is
\* not combined with redirects.
InitLive ==
    /\ Init
    /\ is_some(moptions.log) => (moptions.stdout = None /\ moptions.stderr = None)

SpecLive == InitLive /\ [][Next]_vars /\ WF_vars(Next)

\* C20: with max_restarts set, and every child exiting, the loop stops in
\* the end, with an outcome or with an error, whatever the children's exit
\* statuses are and whatever restart_always is.
C20_Terminates == is_some(moptions.max_restarts) ~> Stopped

C20_Witness ==
    /\ moptions.max_restarts = Some(3)
    /\ moptions.restart_always
    /\ Stopped
    /\ IsOutcome(result)
    /\ start_count = 4
    /\ fail_count = 2

====
